---- MODULE Spec2Model ----
(***************************************************************************)
(* Vocab Trainer (DE <-> FR), streamlit_app-4.py.                          *)
(*                                                                         *)
(* A string is a sequence of characters; a character is a one-token TLA+   *)
(* string.  ASCII characters stand for themselves, the others are named:   *)
(*   "e_acute"    U+00E9  LATIN SMALL LETTER E WITH ACUTE                  *)
(*   "E_acute"    U+00C9  LATIN CAPITAL LETTER E WITH ACUTE                *)
(*   "comb_acute" U+0301  COMBINING ACUTE ACCENT                           *)
(*   "acute"      U+00B4  ACUTE ACCENT (spacing)                           *)
(*   "script_E"   U+2130  SCRIPT CAPITAL E                                 *)
(***************************************************************************)
EXTENDS Integers, Sequences, FiniteSets, TLC

VARIABLES
  store,   \* st.session_state.store["collections"]
  disk,    \* the content of vocab_store.json
  quiz,    \* st.session_state.quiz
  page,    \* the branch of line 246 the last script run drew: "start" or "quiz"
  last,    \* the last button whose handler ran; a run that only draws the
           \* page again (a widget change, an upload that fails or is empty)
           \* leaves it
  arg,     \* the arguments of a function explored on its own
  ret      \* its result, <<>> before the call

vars == <<store, disk, quiz, page, last, arg, ret>>

\* ------------------------------------------------------------------ bounds
\* longest input string on which normalize is explored
MaxLen == 3
\* largest entry pool a quiz is started on
MaxPool == 4
\* most questions a Multiple-Choice session renders
MaxCached == 2

\* ------------------------------------------------- characters and strings
WhitespaceChars == {" "}

CombiningChars == {"comb_acute"}

AsciiUpper ==
  <<"A", "B", "C", "D", "E", "F", "G", "H", "I", "J", "K", "L", "M",
    "N", "O", "P", "Q", "R", "S", "T", "U", "V", "W", "X", "Y", "Z">>

AsciiLower ==
  <<"a", "b", "c", "d", "e", "f", "g", "h", "i", "j", "k", "l", "m",
    "n", "o", "p", "q", "r", "s", "t", "u", "v", "w", "x", "y", "z">>

\* str.lower() on one character
LowerChar(ch) ==
  IF \E k \in 1..26 : AsciiUpper[k] = ch
  THEN AsciiLower[CHOOSE k \in 1..26 : AsciiUpper[k] = ch]
  ELSE IF ch = "E_acute" THEN "e_acute"
  ELSE ch

\* unicodedata.normalize("NFKD", ch) for one character
NFKDChar(ch) ==
  CASE ch = "e_acute" -> <<"e", "comb_acute">>
    [] ch = "E_acute" -> <<"E", "comb_acute">>
    [] ch = "acute" -> <<" ", "comb_acute">>
    [] ch = "script_E" -> <<"E">>
    [] OTHER -> <<ch>>

RECURSIVE LStrip(_)
LStrip(s) ==
  IF s = <<>> THEN <<>>
  ELSE IF Head(s) \in WhitespaceChars THEN LStrip(Tail(s)) ELSE s

RECURSIVE RStrip(_)
RStrip(s) ==
  IF s = <<>> THEN <<>>
  ELSE IF s[Len(s)] \in WhitespaceChars THEN RStrip(SubSeq(s, 1, Len(s) - 1)) ELSE s

\* str.strip()
Strip(s) == RStrip(LStrip(s))

\* str.lower()
Lower(s) == [k \in 1..Len(s) |-> LowerChar(s[k])]

\* str.split(): the maximal runs of non-whitespace characters
RECURSIVE SplitWs(_, _, _)
SplitWs(s, cur, acc) ==
  IF s = <<>> THEN (IF cur = <<>> THEN acc ELSE Append(acc, cur))
  ELSE IF Head(s) \in WhitespaceChars
       THEN SplitWs(Tail(s), <<>>, IF cur = <<>> THEN acc ELSE Append(acc, cur))
       ELSE SplitWs(Tail(s), Append(cur, Head(s)), acc)

\* sep.join(parts)
RECURSIVE Join(_, _)
Join(sep, parts) ==
  IF parts = <<>> THEN <<>>
  ELSE IF Len(parts) = 1 THEN parts[1]
  ELSE parts[1] \o sep \o Join(sep, Tail(parts))

\* unicodedata.normalize("NFKD", s)
RECURSIVE NFKD(_)
NFKD(s) == IF s = <<>> THEN <<>> ELSE NFKDChar(Head(s)) \o NFKD(Tail(s))

\* "".join(ch for ch in s if not unicodedata.combining(ch))
DropCombining(s) == SelectSeq(s, LAMBDA ch : ch \notin CombiningChars)

normalize(s) ==
  LET s1 == Lower(Strip(s))
      s2 == Join(<<" ">>, SplitWs(s1, <<>>, <<>>))
      s3 == NFKD(s2)
  IN  DropCombining(s3)

\* ----------------------------------------------- normalize as a function
NormAlphabet == {"e", "E", "e_acute", "E_acute", "comb_acute", "acute", "script_E", " "}

StringsUpTo(A, n) == UNION {[1..k -> A] : k \in 0..n}


\* ------------------------------------------------------------------ store
\* BUILTIN_COLLECTION; the name and the 14 seed pairs are abbreviated to
\* four pairs with pairwise different answers in both directions
BuiltinName == <<"E", "v", "o">>

BUILTIN_COLLECTION ==
  [name |-> BuiltinName,
   items |-> << [de |-> <<"u">>, fr |-> <<"p">>],
                [de |-> <<"a">>, fr |-> <<"n", "e_acute">>],
                [de |-> <<"h">>, fr |-> <<"E_acute">>],
                [de |-> <<"t">>, fr |-> <<"l", " ", "t">>] >>]

\* load_store() when the file is missing or corrupt
EmptyStore == <<>>

Missing == [missing |-> TRUE]

load_store(file) == IF file = Missing THEN EmptyStore ELSE file.collections

\* json.dump(store) into STORE_PATH
save_store(st) == [collections |-> st]

Names(st) == [k \in 1..Len(st) |-> st[k].name]

SeqRange(s) == {s[k] : k \in 1..Len(s)}

ensure_builtin(st) ==
  IF BUILTIN_COLLECTION.name \notin SeqRange(Names(st))
  THEN Append(st, BUILTIN_COLLECTION)
  ELSE st

RECURSIVE FlattenEntries(_)
FlattenEntries(st) ==
  IF st = <<>> THEN <<>>
  ELSE [k \in 1..Len(st[1].items) |->
          [de |-> st[1].items[k].de, fr |-> st[1].items[k].fr, source |-> st[1].name]]
       \o FlattenEntries(Tail(st))

get_all_entries(st) == FlattenEntries(st)

\* ----------------------------------------------------------------- import
\* sub in s (substring test)
Contains(s, sub) ==
  \E k \in 0..(Len(s) - Len(sub)) : SubSeq(s, k + 1, k + Len(sub)) = sub

\* s.split(sep) for a one-character separator
RECURSIVE SplitOn(_, _, _, _)
SplitOn(s, sep, cur, acc) ==
  IF s = <<>> THEN Append(acc, cur)
  ELSE IF Head(s) = sep
       THEN SplitOn(Tail(s), sep, <<>>, Append(acc, cur))
       ELSE SplitOn(Tail(s), sep, Append(cur, Head(s)), acc)

\* the rows of one table that become entries (lines 82-92)
RECURSIVE TableItems(_, _, _)
TableItems(rows, r_i, name_hint) ==
  IF rows = <<>> THEN <<>>
  ELSE LET cells == [k \in 1..Len(rows[1]) |-> Strip(rows[1][k])]
           rest == TableItems(Tail(rows), r_i + 1, name_hint)
       IN  IF Len(cells) < 2 THEN rest
           ELSE IF cells[1] = <<>> \/ cells[2] = <<>> THEN rest
           ELSE IF r_i = 0 /\ Contains(Lower(cells[1]), <<"d", "e">>)
                           /\ Contains(Lower(cells[2]), <<"f", "r">>) THEN rest
           ELSE <<[de |-> cells[1], fr |-> cells[2], source |-> name_hint]>> \o rest

RECURSIVE TablesItems(_, _)
TablesItems(tables, name_hint) ==
  IF tables = <<>> THEN <<>>
  ELSE TableItems(tables[1], 0, name_hint) \o TablesItems(Tail(tables), name_hint)

\* the paragraphs "de ; fr" that become entries (lines 95-100)
RECURSIVE ParagraphItems(_, _)
ParagraphItems(paragraphs, name_hint) ==
  IF paragraphs = <<>> THEN <<>>
  ELSE LET t == Strip(paragraphs[1])
           raw == SplitOn(t, ";", <<>>, <<>>)
           parts == [k \in 1..Len(raw) |-> Strip(raw[k])]
           rest == ParagraphItems(Tail(paragraphs), name_hint)
       IN  IF Contains(t, <<";">>) /\ Len(parts) >= 2 /\ parts[1] # <<>> /\ parts[2] # <<>>
           THEN <<[de |-> parts[1], fr |-> parts[2], source |-> name_hint]>> \o rest
           ELSE rest

\* the dedupe loop (lines 103-108)
RECURSIVE Dedupe(_, _, _)
Dedupe(items, seen, uniq) ==
  IF items = <<>> THEN uniq
  ELSE LET e == items[1]
           key == <<normalize(e.de), normalize(e.fr)>>
       IN  IF key \in seen THEN Dedupe(Tail(items), seen, uniq)
           ELSE Dedupe(Tail(items), seen \cup {key}, Append(uniq, e))

ImportName == <<"I", "m", "p", "o", "r", "t">>

\* import_docx on a document that opens: <<coll_name, uniq>>
import_docx(doc, name_hint) ==
  LET items == TablesItems(doc.tables, name_hint) \o ParagraphItems(doc.paragraphs, name_hint)
      uniq == Dedupe(items, {}, <<>>)
  IN  <<IF name_hint # <<>> THEN name_hint ELSE ImportName, uniq>>

\* uploaded documents: fname is the file name without its extension, ok is
\* whether python-docx is installed and opens the file
DocListe ==
  [fname |-> <<"L">>, ok |-> TRUE,
   tables |-> << << << <<"D", "e">>, <<"F", "r">> >>,
                    << <<"h">>, <<"c">> >>,
                    << <<"H", " ">>, <<" ", "C">> >>,
                    << <<"k">>, <<" ">> >>,
                    << <<"k">> >>,
                    << <<"k">>, <<"c">>, <<"x">> >> >> >>,
   paragraphs |-> << <<"m", " ", ";", " ", "s">>, <<"n">>, <<";", "t">> >>]

DocLeer ==
  [fname |-> <<"L">>, ok |-> TRUE, tables |-> << << << <<"k">> >> >> >>,
   paragraphs |-> << <<"n">> >>]

DocKaputt == [fname |-> <<"L">>, ok |-> FALSE, tables |-> <<>>, paragraphs |-> <<>>]

Docs == {DocListe, DocLeer, DocKaputt}

\* what the user types into "Sammlungsname" (never empty: the button is disabled)
CollNameInputs == {BuiltinName, <<" ", "L">>, <<" ">>}

\* name_hint = coll_name.strip() or default_name or "Import" (line 202)
NameHint(doc, coll_name) ==
  IF Strip(coll_name) # <<>> THEN Strip(coll_name)
  ELSE IF doc.fname # <<>> THEN doc.fname
  ELSE ImportName

\* import_docx(up, name_hint) for every upload and name the user can enter,
\* computed once
ImportResults ==
  LET t == [c \in Docs \X CollNameInputs |-> import_docx(c[1], NameHint(c[1], c[2]))]
  IN  CHOOSE x \in {t} : x = t

\* --------------------------------------------------------- quiz helpers
Modes == {"DE->FR", "FR->DE"}

MultipleChoice == "Multiple Choice"

Freitext == "Freitext"

qa_pair(e, mode) == IF mode = "DE->FR" THEN <<e.de, e.fr>> ELSE <<e.fr, e.de>>

Injective(f) == \A x, y \in DOMAIN f : f[x] = f[y] => x = y

\* the results of random.shuffle on the list s
Shuffles(s) ==
  {[k \in 1..Len(s) |-> s[p[k]]] :
     p \in {f \in [1..Len(s) -> 1..Len(s)] : Injective(f)}}

\* the results of random.shuffle on a list holding the elements of the set S
Orderings(S) == {f \in [1..Cardinality(S) -> S] : Injective(f)}

\* the results of random.sample(entries, n)
Samples(entries, n) ==
  {[k \in 1..n |-> entries[p[k]]] :
     p \in {f \in [1..n -> 1..Len(entries)] : Injective(f)}}

Take(s, n) == SubSeq(s, 1, IF Len(s) < n THEN Len(s) ELSE n)

\* the loop over pool_global without the test "a not in options"
RECURSIVE FillGlobal_noMembershipTest(_, _)
FillGlobal_noMembershipTest(options, pool) ==
  IF pool = <<>> THEN options
  ELSE LET o2 == Append(options, Head(pool))
       IN  IF Len(o2) = 4 THEN o2 ELSE FillGlobal_noMembershipTest(o2, Tail(pool))

\* the loop over the shuffled pool_global (lines 156-160)
RECURSIVE FillGlobal(_, _)
FillGlobal(options, pool) ==
  IF pool = <<>> THEN options
  ELSE LET o2 == IF Head(pool) \notin SeqRange(options)
                 THEN Append(options, Head(pool)) ELSE options
       IN  IF Len(o2) = 4 THEN o2 ELSE FillGlobal(o2, Tail(pool))

\* while len(options) < 4: options.append(correct)
RECURSIVE Pad(_, _)
Pad(options, correct) ==
  IF Len(options) < 4 THEN Pad(Append(options, correct), correct) ELSE options

\* the lists build_mc_options can return, one per outcome of its shuffles
build_mc_options(correct, session_items, mode, all_entries) ==
  LET all_answers == {qa_pair(e, mode)[2] : e \in SeqRange(session_items)}
      wrongs == {a \in all_answers : normalize(a) # normalize(correct)}
      answers == [k \in 1..Len(all_entries) |-> qa_pair(all_entries[k], mode)[2]]
      pool_global == SelectSeq(answers, LAMBDA a : normalize(a) # normalize(correct))
      Filled(options) ==
        IF Len(options) < 4
        THEN {FillGlobal(options, p) : p \in Shuffles(pool_global)}
        ELSE {options}
  IN  UNION {UNION {Shuffles(Pad(o, correct)) : o \in Filled(<<correct>> \o Take(w, 3))} :
               w \in Orderings(wrongs)}

\* ----------------------------------------------------------- quiz session
\* st.session_state.quiz = None
None == [none |-> TRUE]

\* the "(alle)" entry of the collection selectbox
AllColls == <<"(", "a", "l", "l", "e", ")">>

\* number_input "Anzahl Fragen": min_value and max_value
MinQuestions == 5

MaxQuestions == 100

Min(a, b) == IF a < b THEN a ELSE b

\* entries = all_entries, filtered by the selected collection (lines 261-263)
FilterEntries(all_entries, coll) ==
  IF coll # AllColls THEN SelectSeq(all_entries, LAMBDA e : e.source = coll)
  ELSE all_entries

\* a start button that is enabled on any non-empty pool
StartEnabled_nonEmpty(entries) == Len(entries) >= 1

\* "Quiz starten" is enabled: not (len(entries) < 4)
StartEnabled(entries) == ~(Len(entries) < 4)

\* the sessions the start handler can create (lines 266-280)
start_quiz(entries, num_q, mode, quiztype) ==
  LET n == Min(num_q, Len(entries))
  IN  {[items |-> chosen, order |-> order, i |-> 0, score |-> 0, history |-> <<>>,
        mode |-> mode, quiztype |-> quiztype, phase |-> "ask",
        cached_options |-> <<>>] :
         chosen \in Samples(entries, n), order \in Orderings(0..(n - 1))}

\* e = items[order[i]], for i < len(order)
CurrentEntry(q) == q.items[q.order[q.i + 1] + 1]

\* i >= len(order)
Finished(q) == q.i >= Len(q.order)

\* a render that builds the options anew on every run
RenderQuiz_noCache(q, all_entries) ==
  IF Finished(q) THEN {q}
  ELSE IF q.quiztype = MultipleChoice
       THEN {[q EXCEPT !.cached_options =
                (q.i :> opts) @@ [k \in DOMAIN @ \ {q.i} |-> @[k]]] :
               opts \in build_mc_options(qa_pair(CurrentEntry(q), q.mode)[2],
                                         [k \in 1..Len(q.order) |-> q.items[q.order[k] + 1]],
                                         q.mode, all_entries)}
       ELSE {q}

\* the quiz view's effect on the session: the cached_options lookup
\* (lines 299-331); one result per outcome of build_mc_options
RenderQuiz(q, all_entries) ==
  IF Finished(q) THEN {q}
  ELSE IF q.quiztype = MultipleChoice /\ q.i \notin DOMAIN q.cached_options
       THEN {[q EXCEPT !.cached_options = (q.i :> opts) @@ @] :
               opts \in build_mc_options(qa_pair(CurrentEntry(q), q.mode)[2],
                                         [k \in 1..Len(q.order) |-> q.items[q.order[k] + 1]],
                                         q.mode, all_entries)}
       ELSE {q}

\* q.get(key, default)
Get(q, key, default) == IF key \in DOMAIN q THEN q[key] ELSE default

Verdict(chosen, correct) == normalize(chosen) = normalize(correct)

SetFeedback(q, ok, chosen) ==
  [k \in DOMAIN q \cup {"last_ok", "last_given"} |->
     CASE k = "last_ok" -> ok
       [] k = "last_given" -> chosen
       [] k = "phase" -> "feedback"
       [] OTHER -> q[k]]

\* a handler that takes an empty answer for an answer
PruefenHandler_acceptsEmpty(q, chosen) ==
  SetFeedback(q, Verdict(chosen, qa_pair(CurrentEntry(q), q.mode)[2]), chosen)

\* a handler that counts the point when the answer is checked
PruefenHandler_scoresEarly(q, chosen) ==
  IF chosen = <<>> THEN q
  ELSE LET ok == Verdict(chosen, qa_pair(CurrentEntry(q), q.mode)[2])
       IN  SetFeedback([q EXCEPT !.score = IF ok THEN @ + 1 ELSE @], ok, chosen)

\* the "Pruefen" handler (lines 343-351); an empty text and no selected
\* option are both <<>>
PruefenHandler(q, chosen) ==
  IF chosen = <<>> THEN q
  ELSE SetFeedback(q, Verdict(chosen, qa_pair(CurrentEntry(q), q.mode)[2]), chosen)

CommitFeedback(q, ok, add) ==
  LET qa == qa_pair(CurrentEntry(q), q.mode)
      chosen == Get(q, "last_given", <<>>)
  IN  [q EXCEPT !.score = @ + add,
                !.history = Append(@, <<qa[1], chosen, IF ok THEN "Ja" ELSE "Nein", qa[2]>>),
                !.i = @ + 1,
                !.phase = "ask"]

\* a handler that counts every answer as a point
WeiterHandler_alwaysScores(q) == CommitFeedback(q, Get(q, "last_ok", FALSE), 1)

\* a handler that records only the correct answers
WeiterHandler_dropsWrong(q) ==
  IF Get(q, "last_ok", FALSE) THEN CommitFeedback(q, TRUE, 1)
  ELSE [q EXCEPT !.i = @ + 1, !.phase = "ask"]

\* the "Weiter" handler (lines 356-370)
WeiterHandler(q) ==
  LET ok == Get(q, "last_ok", FALSE)
  IN  CommitFeedback(q, ok, IF ok THEN 1 ELSE 0)

\* a reset that rewinds the session instead of discarding it
reset_quiz_rewinds(q) ==
  IF q = None THEN None
  ELSE [q EXCEPT !.i = 0, !.score = 0, !.history = <<>>, !.phase = "ask"]

\* reset_quiz(): the session it leaves
reset_quiz(q) == None

\* the buttons the page offers: the start page, the result page (lines
\* 299-309), or the question in its phase (lines 341, 355)
ScreenOf(q, pg) ==
  IF pg = "start" THEN "start"
  ELSE IF Finished(q) THEN "done"
  ELSE q.phase

Screen == ScreenOf(quiz, page)

PageOf(q) == IF q = None THEN "start" ELSE "quiz"

\* ---------------------------------------------------------- import handler
IndexOf(s, x) == CHOOSE k \in 1..Len(s) : s[k] = x /\ \A j \in 1..(k - 1) : s[j] # x

NewColl(name, items) ==
  [name |-> name, items |-> [k \in 1..Len(items) |-> [de |-> items[k].de, fr |-> items[k].fr]]]

\* lines 205-224 once import_docx has returned res = <<coll_name, items>>:
\* the store, the file and the session the handler leaves, and the branch
\* it took ("none" when the document holds no entry)
import_store(st, dk, q, res, overwrite) ==
  IF res[2] = <<>>
  THEN [store |-> st, disk |-> dk, quiz |-> q, outcome |-> "none"]
  ELSE IF res[1] \in SeqRange(Names(st))
  THEN IF overwrite
       THEN [store |-> [st EXCEPT ![IndexOf(Names(st), res[1])] = NewColl(res[1], res[2])],
             disk |-> save_store([st EXCEPT ![IndexOf(Names(st), res[1])] = NewColl(res[1], res[2])]),
             quiz |-> reset_quiz(q), outcome |-> "import_overwritten"]
       ELSE [store |-> st, disk |-> dk, quiz |-> reset_quiz(q), outcome |-> "import_rejected"]
  ELSE [store |-> Append(st, NewColl(res[1], res[2])),
        disk |-> save_store(Append(st, NewColl(res[1], res[2]))),
        quiz |-> reset_quiz(q), outcome |-> "import_added"]

\* the outcome a handler reports when it was asked not to overwrite
ReportedAs(r, overwrite) ==
  IF r.outcome = "import_overwritten" /\ ~overwrite
  THEN [r EXCEPT !.outcome = "import_rejected"]
  ELSE r

\* a handler that replaces a collection whether or not "overwrite" is ticked
import_handler_ignoresOverwrite(st, dk, q, doc, coll_name, overwrite) ==
  IF ~doc.ok THEN [store |-> st, disk |-> dk, quiz |-> q, outcome |-> "none"]
  ELSE ReportedAs(import_store(st, dk, q, ImportResults[<<doc, coll_name>>], TRUE), overwrite)

\* the "Import starten" handler (lines 197-224); a document that cannot be
\* read only reports the failure
import_handler(st, dk, q, doc, coll_name, overwrite) ==
  IF ~doc.ok THEN [store |-> st, disk |-> dk, quiz |-> q, outcome |-> "none"]
  ELSE import_store(st, dk, q, ImportResults[<<doc, coll_name>>], overwrite)

\* ----------------------------------------------------------------- inputs
\* what the user can have in the answer widget when "Pruefen" is clicked:
\* nothing, a spelling of the expected answer in other case and accents, a
\* wrong word; in Multiple Choice nothing or one of the first two options
Respelled(s) ==
  <<" ">> \o [k \in 1..Len(s) |->
               CASE s[k] = "e_acute" -> "E"
                 [] s[k] = "E_acute" -> "e"
                 [] OTHER -> s[k]] \o <<" ">>

WrongText == <<"z">>

ChosenInputs(q) ==
  IF q.quiztype = MultipleChoice
  THEN {<<>>} \cup SeqRange(Take(q.cached_options[q.i], 2))
  ELSE {<<>>, Respelled(qa_pair(CurrentEntry(q), q.mode)[2]), WrongText}

\* the uploads explored: the word list under every name and with the box
\* ticked or not, the empty and the unreadable document once each
ImportInputs ==
  ({DocListe} \X CollNameInputs \X BOOLEAN)
    \cup ({DocLeer, DocKaputt} \X {<<" ", "L">>} \X {FALSE})

\* ---------------------------------------------------------------- actions
\* sidebar button "Import starten", then the main area is drawn
ImportStarten ==
  \E in \in ImportInputs :
    \E r \in {import_handler(store, disk, quiz, in[1], in[2], in[3])} :
      /\ store' = r.store
      /\ disk' = r.disk
      /\ quiz' \in (IF r.quiz = None THEN {None}
                    ELSE RenderQuiz(r.quiz, get_all_entries(r.store)))
      /\ page' = PageOf(r.quiz)
      /\ last' = IF r.outcome = "none" THEN last ELSE r.outcome
      /\ UNCHANGED <<arg, ret>>

\* sidebar button "Neue Quiz-Session": on_click = reset_quiz
NeueQuizSession ==
  /\ quiz' = reset_quiz(quiz)
  /\ page' = PageOf(quiz')
  /\ last' = "reset"
  /\ UNCHANGED <<store, disk, arg, ret>>

\* "Quiz starten" on the start page; the run still draws the start page
QuizStarten ==
  /\ quiz = None
  /\ \E coll \in {AllColls} \cup SeqRange(Names(store)), mode \in Modes,
        num_q \in {MinQuestions, MaxQuestions} :
       LET entries == FilterEntries(get_all_entries(store), coll)
       IN  /\ StartEnabled(entries)
           /\ Len(entries) <= MaxPool
           /\ quiz' \in start_quiz(entries, num_q, mode, Freitext)
  /\ page' = "start"
  /\ last' = "start"
  /\ UNCHANGED <<store, disk, arg, ret>>

\* any other interaction while a session exists: the script runs again
Rerun ==
  /\ quiz # None
  /\ quiz' \in RenderQuiz(quiz, get_all_entries(store))
  /\ page' = "quiz"
  /\ UNCHANGED <<store, disk, last, arg, ret>>

\* "Pruefen" in the ask phase; a non-empty answer ends in st.rerun()
Pruefen ==
  /\ Screen = "ask"
  /\ \E q1 \in RenderQuiz(quiz, get_all_entries(store)) :
       \E chosen \in ChosenInputs(q1) :
         /\ quiz' \in (IF chosen = <<>> THEN {PruefenHandler(q1, chosen)}
                       ELSE RenderQuiz(PruefenHandler(q1, chosen), get_all_entries(store)))
         /\ last' = IF chosen = <<>> THEN "pruefen_leer" ELSE "pruefen"
  /\ UNCHANGED <<store, disk, page, arg, ret>>

\* "Weiter" in the feedback phase, ending in st.rerun()
Weiter ==
  /\ Screen = "feedback"
  /\ quiz.quiztype = MultipleChoice => quiz.i + 1 < MaxCached
  /\ \E q1 \in RenderQuiz(quiz, get_all_entries(store)) :
       quiz' \in RenderQuiz(WeiterHandler(q1), get_all_entries(store))
  /\ last' = "weiter"
  /\ UNCHANGED <<store, disk, page, arg, ret>>

\* "Zur Startseite" on the result page: on_click = reset_quiz
ZurStartseite ==
  /\ Screen = "done"
  /\ quiz' = reset_quiz(quiz)
  /\ page' = PageOf(quiz')
  /\ last' = "startseite"
  /\ UNCHANGED <<store, disk, arg, ret>>

\* the first script run (lines 172-177): no store file, or none readable
Init ==
  /\ store = ensure_builtin(load_store(Missing))
  /\ disk = save_store(ensure_builtin(load_store(Missing)))
  /\ quiz = None
  /\ page = "start"
  /\ last = "init"
  /\ arg = <<>>
  /\ ret = <<>>

Next ==
  \/ ImportStarten
  \/ NeueQuizSession
  \/ QuizStarten
  \/ Rerun
  \/ Pruefen
  \/ Weiter
  \/ ZurStartseite

Spec == Init /\ [][Next]_vars

\* ------------------------------------------- Multiple-Choice sessions
\* the app right after "Quiz starten" with quiz type Multiple Choice on the
\* built-in collection, in either direction, for one outcome of the sample
\* and of the shuffle of the order
InitMC ==
  /\ store = ensure_builtin(load_store(Missing))
  /\ disk = save_store(ensure_builtin(load_store(Missing)))
  /\ quiz \in {q \in UNION {start_quiz(get_all_entries(ensure_builtin(load_store(Missing))),
                                        MinQuestions, mode, MultipleChoice) : mode \in Modes} :
                 /\ q.items = get_all_entries(ensure_builtin(load_store(Missing)))
                 /\ q.order = <<2, 0, 3, 1>>}
  /\ page = "start"
  /\ last = "start"
  /\ arg = <<>>
  /\ ret = <<>>

NextMC ==
  \/ Rerun
  \/ Pruefen
  \/ Weiter
  \/ NeueQuizSession

SpecMC == InitMC /\ [][NextMC]_vars

\* ------------------------------------------- normalize on its own inputs
InitNormalize ==
  /\ store = <<>>
  /\ disk = Missing
  /\ quiz = None
  /\ page = "start"
  /\ last = "init"
  /\ arg \in StringsUpTo(NormAlphabet, MaxLen)
  /\ ret = <<>>

CallNormalize ==
  /\ ret = <<>>
  /\ ret' = <<normalize(arg)>>
  /\ UNCHANGED <<store, disk, quiz, page, last, arg>>

SpecNormalize == InitNormalize /\ [][CallNormalize]_vars

\* ------------------------------------ build_mc_options on its own inputs
\* five entries; in direction DE->FR three of them have answers that are
\* equal after normalize
OptEntries ==
  << [de |-> <<"a">>, fr |-> <<"x">>, source |-> <<"L">>],
     [de |-> <<"b">>, fr |-> <<"x">>, source |-> <<"L">>],
     [de |-> <<"c">>, fr |-> <<"X">>, source |-> <<"L">>],
     [de |-> <<"d">>, fr |-> <<"y">>, source |-> <<"L">>],
     [de |-> <<"e">>, fr |-> <<"z">>, source |-> <<"L">>] >>

\* the entries of OptEntries at the positions in S, in their order
RECURSIVE Pick(_, _)
Pick(entries, S) ==
  IF entries = <<>> THEN <<>>
  ELSE (IF Len(entries) \in S THEN Pick(SubSeq(entries, 1, Len(entries) - 1), S)
                                      \o <<entries[Len(entries)]>>
        ELSE Pick(SubSeq(entries, 1, Len(entries) - 1), S))

\* a store of at least four entries, a session of at least four of them,
\* a direction, and the answer of one of the session's entries
OptInputs ==
  {[correct |-> qa_pair(OptEntries[c], mode)[2],
    session_items |-> Pick(OptEntries, T),
    mode |-> mode,
    all_entries |-> Pick(OptEntries, S)] :
     <<S, T, c, mode>> \in
       {x \in (SUBSET (1..5)) \X (SUBSET (1..5)) \X (1..5) \X Modes :
          /\ Cardinality(x[2]) >= 4
          /\ x[2] \subseteq x[1]
          /\ x[3] \in x[2]}}

InitOptions ==
  /\ store = <<>>
  /\ disk = Missing
  /\ quiz = None
  /\ page = "start"
  /\ last = "init"
  /\ arg \in OptInputs
  /\ ret = <<>>

CallBuildMcOptions ==
  /\ ret = <<>>
  /\ \E opts \in build_mc_options(arg.correct, arg.session_items, arg.mode, arg.all_entries) :
       ret' = <<opts>>
  /\ UNCHANGED <<store, disk, quiz, page, last, arg>>

SpecOptions == InitOptions /\ [][CallBuildMcOptions]_vars

\* ----------------------------------------------------------------- claims
Active == quiz # None

\* C1: whenever a session is Done (i >= len(order)), score <= len(history)
\* and len(history) = len(order)
C1_DoneInvariant ==
  (Active /\ Finished(quiz)) =>
    /\ quiz.score <= Len(quiz.history)
    /\ Len(quiz.history) = Len(quiz.order)

\* a session ended by "Weiter" with right and wrong answers in its history
C1_Witness ==
  /\ Active /\ Finished(quiz) /\ last = "weiter"
  /\ quiz.score > 0 /\ quiz.score < Len(quiz.history)

\* C2 as stated: with a session of at least four entries build_mc_options
\* returns four options of which exactly one is normalize-equal to the
\* correct answer (so that no copy of the correct answer pads the list)
C2_AsStated ==
  (ret # <<>> /\ Len(arg.session_items) >= 4) =>
    /\ Len(ret[1]) = 4
    /\ Cardinality({k \in 1..Len(ret[1]) : normalize(ret[1][k]) = normalize(arg.correct)}) = 1

\* the answers, of the session and of the store, that are not
\* normalize-equal to the correct one
Distractors(a) ==
  {x \in {qa_pair(e, a.mode)[2] : e \in SeqRange(a.session_items) \cup SeqRange(a.all_entries)} :
     normalize(x) # normalize(a.correct)}

\* C2, amended: build_mc_options always returns four options, the correct
\* answer among them; when the session's and the store's answers hold at
\* least three different strings that are not normalize-equal to the correct
\* answer, the four options are four different strings and exactly one of
\* them is normalize-equal to the correct answer
C2_FourOptions ==
  ret # <<>> =>
    /\ Len(ret[1]) = 4
    /\ arg.correct \in SeqRange(ret[1])
    /\ Cardinality(Distractors(arg)) >= 3 =>
         /\ Cardinality(SeqRange(ret[1])) = 4
         /\ Cardinality({k \in 1..4 : normalize(ret[1][k]) = normalize(arg.correct)}) = 1

\* options returned for a session with fewer than three distractors of its
\* own, completed from the store's entries
C2_Witness ==
  /\ ret # <<>>
  /\ Len(arg.session_items) >= 4
  /\ Cardinality(Distractors(arg)) >= 3
  /\ Cardinality(Distractors([arg EXCEPT !.all_entries = <<>>])) < 3
  /\ Cardinality(SeqRange(ret[1])) = 4

\* C3: an import under the name of an existing collection without
\* "overwrite" leaves the list of collections and the store file as they were
C3_DuplicateRejected ==
  [][last' = "import_rejected" => (store' = store /\ disk' = disk)]_vars

\* a rejected import into a store of two collections
C3_Witness ==
  /\ last = "import_rejected"
  /\ Len(store) = 2
  /\ disk = save_store(store)

\* C4: "Pruefen" with an empty answer leaves the session as it was, in
\* phase ask
C4_EmptyAnswerRejected ==
  [][last' = "pruefen_leer" => (quiz' = quiz /\ quiz'.phase = "ask")]_vars

\* an empty answer was submitted on a later question of a session
C4_Witness ==
  /\ Active /\ last = "pruefen_leer"
  /\ quiz.i > 0 /\ quiz.phase = "ask"

\* the session with the pending verdict and answer left out
Committed(q) ==
  [k \in DOMAIN q \ {"last_ok", "last_given", "phase"} |-> q[k]]

\* C5: "Pruefen" with a non-empty answer (the one step that changes the
\* session and leaves last = "pruefen") moves ask -> feedback and stores
\* the answer and the verdict normalize(given) = normalize(expected); score,
\* history, index and the rest of the session stay
C5_SubmitStoresVerdict ==
  [][(last' = "pruefen" /\ quiz' # quiz) =>
       /\ quiz.phase = "ask"
       /\ quiz'.phase = "feedback"
       /\ quiz'.last_given # <<>>
       /\ quiz'.last_ok = (normalize(quiz'.last_given)
                             = normalize(qa_pair(CurrentEntry(quiz), quiz.mode)[2]))
       /\ Committed(quiz') = Committed(quiz)]_vars

\* an answer spelled differently from the expected one was found correct
C5_Witness ==
  /\ Active /\ last = "pruefen" /\ quiz.phase = "feedback"
  /\ quiz.last_ok
  /\ quiz.last_given # qa_pair(CurrentEntry(quiz), quiz.mode)[2]

\* C6: "Weiter" (the one step that changes the session and leaves
\* last = "weiter") adds 1 to the score for a correct pending verdict and 0
\* otherwise, appends one history record and increments the index; at Done
\* the score is the number of answers that were normalize-equal to the
\* expected answer (N when all were)
C6_AdvanceCommits ==
  [][(last' = "weiter" /\ quiz' # quiz) =>
       /\ quiz'.score = quiz.score + (IF quiz.last_ok THEN 1 ELSE 0)
       /\ quiz'.history = Append(quiz.history,
              <<qa_pair(CurrentEntry(quiz), quiz.mode)[1], quiz.last_given,
                IF quiz.last_ok THEN "Ja" ELSE "Nein",
                qa_pair(CurrentEntry(quiz), quiz.mode)[2]>>)
       /\ quiz'.i = quiz.i + 1
       /\ Finished(quiz') =>
            quiz'.score = Cardinality({k \in 1..Len(quiz'.history) :
                             normalize(quiz'.history[k][2]) = normalize(quiz'.history[k][4])})]_vars

\* a finished session with every answer correct: score = N
C6_Witness ==
  /\ Active /\ Finished(quiz) /\ last = "weiter"
  /\ quiz.score = Len(quiz.order)
  /\ \A k \in 1..Len(quiz.history) : quiz.history[k][2] # quiz.history[k][4]

\* C7: an option list, once cached for a question index, stays in the
\* session as it is: every later run shows the same list in the same order
C7_OptionsStable ==
  [][(quiz # None /\ quiz' # None) =>
       \A k \in DOMAIN quiz.cached_options :
         /\ k \in DOMAIN quiz'.cached_options
         /\ quiz'.cached_options[k] = quiz.cached_options[k]]_vars

\* the feedback phase of the second question, both lists cached
C7_Witness ==
  /\ Active /\ quiz.quiztype = MultipleChoice
  /\ quiz.phase = "feedback" /\ quiz.i = 1
  /\ DOMAIN quiz.cached_options = {0, 1}

\* C8: normalize(normalize(s)) = normalize(s)
C8_Idempotent == ret # <<>> => normalize(ret[1]) = ret[1]

\* C9: from Done the session either stays as it is or is discarded
C9_DoneTerminal ==
  [][(quiz # None /\ Finished(quiz)) => (quiz' = quiz \/ quiz' = None)]_vars

\* "Zur Startseite" was clicked on the result page
C9_Witness == quiz = None /\ last = "startseite"

\* C10: in an active session len(history) = i, 0 <= score <= i <= len(order),
\* len(order) >= 4, and order[i] indexes items while i < len(order)
C10_SessionInvariant ==
  Active =>
    /\ Len(quiz.history) = quiz.i
    /\ 0 <= quiz.score /\ quiz.score <= quiz.i /\ quiz.i <= Len(quiz.order)
    /\ Len(quiz.order) >= 4
    /\ Len(quiz.order) = Len(quiz.items)
    /\ ~Finished(quiz) => (quiz.order[quiz.i + 1] + 1) \in 1..Len(quiz.items)

\* the feedback phase of the last question
C10_Witness ==
  /\ Active /\ quiz.phase = "feedback"
  /\ quiz.i = Len(quiz.order) - 1
  /\ quiz.score > 0

====
